---- MODULE Spec2Model ----
(***************************************************************************)
(* Signature-based carving engine of CyberRecover Pro                      *)
(* (src/src/core/advanced_carver.py, class AdvancedFileCarver).            *)
(*                                                                         *)
(* Byte strings.  A Python bytes object is modelled by its run-length      *)
(* encoding: a sequence of runs [b |-> byte value, n |-> repeat count]     *)
(* with n >= 1 and no two adjacent runs of the same byte, so that two      *)
(* byte strings are equal exactly when their encodings are equal.  The     *)
(* encoding lets the model hold sources of several MiB, which the          *)
(* extraction caps (512 KiB .. 10 MiB) and the 1 MiB quick-scan prefix     *)
(* need, with the byte values and the sizes of the code unchanged.         *)
(***************************************************************************)
EXTENDS Integers, Sequences, FiniteSets, TLC

VARIABLES
    source_files,  \* the source files that exist: path -> content
    dirs,          \* the directories that exist
    files,         \* the files in them: <<directory, name>> -> content
    call,          \* per call: where it stands, its arguments and locals
    mode,          \* how the callers call the engine: one call after another
                   \* ("sequential") or two calls at once ("concurrent")
    ui,            \* the interactive front end: where its menu loop stands
    scan           \* a run of _find_all_occurrences taken by itself: its
                   \* arguments, its locals and where it stands

vars == <<source_files, dirs, files, call, mode, ui, scan>>

Min2(a, b) == IF a <= b THEN a ELSE b

Max2(a, b) == IF a >= b THEN a ELSE b

SetMin(S) == CHOOSE x \in S : \A y \in S : x <= y

(* len(d) *)
RECURSIVE BLen(_)
BLen(d) == IF d = <<>> THEN 0 ELSE Head(d).n + BLen(Tail(d))

(* d + bytes([b]) * n *)
AppendRun(d, b, n) ==
    IF n <= 0 THEN d
    ELSE IF d # <<>> /\ d[Len(d)].b = b
         THEN [d EXCEPT ![Len(d)] = [b |-> b, n |-> d[Len(d)].n + n]]
         ELSE Append(d, [b |-> b, n |-> n])

(* x + y *)
RECURSIVE Concat(_, _)
Concat(x, y) ==
    IF y = <<>> THEN x
    ELSE Concat(AppendRun(x, Head(y).b, Head(y).n), Tail(y))

(* bytes(s) for a sequence s of byte values, e.g. a signature *)
RECURSIVE FromBytes(_)
FromBytes(s) ==
    IF s = <<>> THEN <<>>
    ELSE Concat(<<[b |-> Head(s), n |-> 1]>>, FromBytes(Tail(s)))

(* d[i] for i >= 0, and -1 where d has no byte i *)
RECURSIVE ByteAtRun(_, _, _)
ByteAtRun(d, r, i) ==
    IF r > Len(d) THEN -1
    ELSE IF i < d[r].n THEN d[r].b
    ELSE ByteAtRun(d, r + 1, i - d[r].n)

ByteAt(d, i) == IF i < 0 THEN -1 ELSE ByteAtRun(d, 1, i)

(* d[lo:hi] for 0 <= lo: Python clips the slice to the end of d *)
RECURSIVE PySlice(_, _, _)
PySlice(d, lo, hi) ==
    IF d = <<>> \/ hi <= 0 THEN <<>>
    ELSE LET n == Head(d).n
             a == Max2(lo, 0)
             z == Min2(hi, n)
             rest == PySlice(Tail(d), lo - n, hi - n)
         IN  IF a < z THEN <<[b |-> Head(d).b, n |-> z - a]>> \o rest
             ELSE rest

(* MatchAt with a bug: a pattern cut off by the end of d counts as a match *)
MatchAt_partial(d, pattern, i) ==
    /\ i >= 0
    /\ ByteAt(d, i) # -1
    /\ \A k \in 1..Len(pattern) : ByteAt(d, i + k - 1) \in {pattern[k], -1}

(* d[i : i+len(pattern)] == pattern; a slice that runs past the end of d  *)
(* is shorter than the pattern and differs from it                         *)
MatchAt(d, pattern, i) ==
    /\ i >= 0
    /\ \A k \in 1..Len(pattern) : ByteAt(d, i + k - 1) = pattern[k]

(* the number of leading bytes of pattern that equal its first byte *)
RECURSIVE LeadRun(_)
LeadRun(pattern) ==
    IF Len(pattern) = 1 \/ pattern[2] # pattern[1] THEN 1
    ELSE 1 + LeadRun(Tail(pattern))

(* The lowest match at or after start that begins in run r or later; s is  *)
(* the offset of run r.  A match begins in a run of the pattern's first    *)
(* byte.  If the pattern goes on with another byte after its q leading     *)
(* bytes, the match begins q bytes before the end of the run; if it is q   *)
(* equal bytes, the lowest match in the run begins at max(start, s).       *)
RECURSIVE FindFromRun(_, _, _, _, _)
FindFromRun(d, r, s, pattern, start) ==
    IF r > Len(d) THEN -1
    ELSE LET e == s + d[r].n
             q == LeadRun(pattern)
             i == IF q = Len(pattern) THEN Max2(start, s) ELSE e - q
         IN  IF /\ d[r].b = pattern[1]
                /\ i >= s /\ i >= start /\ i < e
                /\ MatchAt(d, pattern, i)
             THEN i
             ELSE FindFromRun(d, r + 1, e, pattern, start)

(* data.find(pattern, start): the lowest index >= start where pattern      *)
(* occurs in data, -1 when there is none                                   *)
bytes_find(data, pattern, start) == FindFromRun(data, 1, 0, pattern, start)

(* bytes_contains with a bug: data.startswith(pattern) *)
bytes_contains_prefix(data, pattern) == MatchAt(data, pattern, 0)

(* pattern in data *)
bytes_contains(data, pattern) == bytes_find(data, pattern, 0) # -1

(***************************************************************************)
(* The signature table.                                                    *)
(***************************************************************************)

Entry(sig, ext, type, description) ==
    [sig |-> sig, ext |-> ext, type |-> type, description |-> description]

(* The dict display of _load_signatures, item by item in source order.    *)
SignatureItems ==
    << Entry(<<\hFF, \hD8, \hFF, \hE0>>, "jpg", "image", "JPEG Image"),
       Entry(<<\hFF, \hD8, \hFF, \hE1>>, "jpg", "image", "JPEG Image (EXIF)"),
       Entry(<<\h89, \h50, \h4E, \h47>>, "png", "image", "PNG Image"),
       Entry(<<\h47, \h49, \h46, \h38>>, "gif", "image", "GIF Image"),
       Entry(<<\h42, \h4D>>, "bmp", "image", "BMP Image"),
       Entry(<<\h49, \h49, \h2A, \h00>>, "tif", "image", "TIFF Image"),
       Entry(<<\h25, \h50, \h44, \h46>>, "pdf", "document", "PDF Document"),
       Entry(<<\h50, \h4B, \h03, \h04>>, "zip", "archive", "ZIP Archive"),
       Entry(<<\h50, \h4B, \h05, \h06>>, "zip", "archive", "ZIP Archive (empty)"),
       Entry(<<\h50, \h4B, \h07, \h08>>, "zip", "archive", "ZIP Archive (spanned)"),
       Entry(<<\h52, \h61, \h72, \h21>>, "rar", "archive", "RAR Archive"),
       Entry(<<\h37, \h7A, \hBC, \hAF>>, "7z", "archive", "7-Zip Archive"),
       Entry(<<\hD0, \hCF, \h11, \hE0>>, "doc", "document", "Microsoft Office"),
       Entry(<<\h50, \h4B, \h03, \h04>>, "docx", "document", "Microsoft Office (new)"),
       Entry(<<\h49, \h44, \h33>>, "mp3", "audio", "MP3 Audio"),
       Entry(<<\hFF, \hFB>>, "mp3", "audio", "MP3 Audio (no ID3)"),
       Entry(<<\h52, \h49, \h46, \h46>>, "avi", "video", "AVI Video"),
       Entry(<<\h66, \h74, \h79, \h70>>, "mp4", "video", "MP4 Video"),
       Entry(<<\h1A, \h45, \hDF, \hA3>>, "mkv", "video", "Matroska Video"),
       Entry(<<\h7F, \h45, \h4C, \h46>>, "elf", "executable", "ELF Executable"),
       Entry(<<\h4D, \h5A>>, "exe", "executable", "Windows Executable"),
       Entry(<<\hCA, \hFE, \hBA, \hBE>>, "class", "executable", "Java Class"),
       Entry(<<\h53, \h51, \h4C, \h69>>, "sqlite", "database", "SQLite Database"),
       Entry(<<\hEF, \hBB, \hBF>>, "txt", "text", "UTF-8 Text"),
       Entry(<<\hFF, \hFE>>, "txt", "text", "UTF-16 LE Text"),
       Entry(<<\hFE, \hFF>>, "txt", "text", "UTF-16 BE Text") >>

(* DictSet with a bug: a list of items, a repeated key is kept twice *)
DictSet_append(d, item) == Append(d, item)

(* d[key] = value on a Python dict d, kept as the sequence of its items in *)
(* iteration order: a new key is appended, an existing key keeps its place *)
(* and takes the new value.                                                *)
DictSet(d, item) ==
    IF \E j \in 1..Len(d) : d[j].sig = item.sig
    THEN [j \in 1..Len(d) |-> IF d[j].sig = item.sig THEN item ELSE d[j]]
    ELSE Append(d, item)

RECURSIVE DictOf(_, _)
DictOf(items, d) ==
    IF items = <<>> THEN d ELSE DictOf(Tail(items), DictSet(d, Head(items)))

(* load_signatures with a bug: one more entry, whose pattern begins and  *)
(* ends with FF                                                            *)
load_signatures_with_border ==
    DictOf(SignatureItems \o
             <<Entry(<<\hFF, \hFE, \hFF>>, "txt", "text", "UTF-16 LE Text (BOM twice)")>>,
           <<>>)

(* self.signatures: the items of the dict that _load_signatures returns,  *)
(* in the order signatures.items() yields them                             *)
load_signatures == DictOf(SignatureItems, <<>>)

(***************************************************************************)
(* The scanner and the extractor.                                          *)
(***************************************************************************)

(* next_start with a bug: start = pos, the search resumes at the match *)
next_start_at_match(pos, pattern) == pos

(* start = pos + 1 *)
next_start(pos, pattern) == pos + 1

(* find_loop with a bug: positions.insert(0, pos) *)
RECURSIVE find_loop_desc(_, _, _, _)
find_loop_desc(data, pattern, start, positions) ==
    LET pos == bytes_find(data, pattern, start)
    IN  IF pos = -1 THEN positions
        ELSE find_loop_desc(data, pattern, pos + 1, <<pos>> \o positions)

RECURSIVE find_loop(_, _, _, _)
find_loop(data, pattern, start, positions) ==
    LET pos == bytes_find(data, pattern, start)
    IN  IF pos = -1 THEN positions
        ELSE find_loop(data, pattern, next_start(pos, pattern),
                       Append(positions, pos))

(* find_all_occurrences with a bug: "if" for "while", the first match only *)
find_all_occurrences_first(data, pattern) ==
    LET pos == bytes_find(data, pattern, 0)
    IN  IF pos = -1 THEN <<>> ELSE <<pos>>

find_all_occurrences(data, pattern) == find_loop(data, pattern, 0, <<>>)

(* extract_file_data with a bug: data[position : cap] *)
extract_file_data_abs(data, position, signature, extension) ==
    IF extension \in {"jpg", "png", "gif"}
    THEN PySlice(data, position, 1024 * 1024)
    ELSE IF extension \in {"pdf", "docx"}
    THEN PySlice(data, position, 10 * 1024 * 1024)
    ELSE IF extension \in {"zip", "rar"}
    THEN PySlice(data, position, 5 * 1024 * 1024)
    ELSE PySlice(data, position, 512 * 1024)

(* extract_file_data with a bug: zip listed with pdf and docx *)
extract_file_data_zip10(data, position, signature, extension) ==
    IF extension \in {"jpg", "png", "gif"}
    THEN PySlice(data, position, position + 1024 * 1024)
    ELSE IF extension \in {"pdf", "docx", "zip"}
    THEN PySlice(data, position, position + 10 * 1024 * 1024)
    ELSE IF extension \in {"rar"}
    THEN PySlice(data, position, position + 5 * 1024 * 1024)
    ELSE PySlice(data, position, position + 512 * 1024)

extract_file_data(data, position, signature, extension) ==
    IF extension \in {"jpg", "png", "gif"}
    THEN PySlice(data, position, position + 1024 * 1024)
    ELSE IF extension \in {"pdf", "docx"}
    THEN PySlice(data, position, position + 10 * 1024 * 1024)
    ELSE IF extension \in {"zip", "rar"}
    THEN PySlice(data, position, position + 5 * 1024 * 1024)
    ELSE PySlice(data, position, position + 512 * 1024)

(***************************************************************************)
(* Formatting and hashing.                                                 *)
(***************************************************************************)

HexDigit(v) ==
    << "0", "1", "2", "3", "4", "5", "6", "7",
       "8", "9", "a", "b", "c", "d", "e", "f" >>[v + 1]

(* format(n, "x") *)
RECURSIVE Hex(_)
Hex(n) == IF n < 16 THEN HexDigit(n) ELSE Hex(n \div 16) \o HexDigit(n % 16)

RECURSIVE ZeroPad(_, _)
ZeroPad(s, width) == IF Len(s) >= width THEN s ELSE ZeroPad("0" \o s, width)

(* format_08x with a bug: f"{n:x}" *)
format_x(n) == Hex(n)

(* f"{n:08x}" *)
format_08x(n) == ZeroPad(Hex(n), 8)

(* signature.hex() *)
RECURSIVE bytes_hex(_)
bytes_hex(s) ==
    IF s = <<>> THEN ""
    ELSE ZeroPad(Hex(Head(s)), 2) \o bytes_hex(Tail(s))

(* carved_filename with a bug: the index counts the files carved so far, *)
(* those of earlier calls included                                        *)
carved_filename_counter(ext, pos, i) ==
    "carved_" \o ext \o "_" \o format_08x(pos) \o "_"
        \o ToString(Cardinality(DOMAIN files)) \o "." \o ext

(* carved_filename with a bug: the offset is left out of the name *)
carved_filename_no_offset(ext, pos, i) ==
    "carved_" \o ext \o "_" \o ToString(i) \o "." \o ext

(* f"carved_{ext}_{pos:08x}_{i}.{ext}" *)
carved_filename(ext, pos, i) ==
    "carved_" \o ext \o "_" \o format_08x(pos) \o "_" \o ToString(i) \o "." \o ext

(* hashlib.sha256(b).hexdigest(): SHA-256 is taken as collision free, the  *)
(* digest stands for the byte string it was computed from                  *)
sha256_hexdigest(b) == <<"sha256", b>>

(***************************************************************************)
(* The sources the engine is run on.                                       *)
(***************************************************************************)

(* longest source enumerated byte by byte *)
MaxSmallLen == 5

SmallAlphabet == {\hFF, \hFE}

RECURSIVE SeqsUpTo(_)
SeqsUpTo(n) ==
    IF n = 0 THEN {<<>>}
    ELSE LET shorter == SeqsUpTo(n - 1)
         IN  shorter \cup { Append(s, b) : s \in {t \in shorter : Len(t) = n - 1},
                                           b \in SmallAlphabet }

(* every byte string over SmallAlphabet of at most MaxSmallLen bytes *)
SmallInputs == { FromBytes(s) : s \in SeqsUpTo(MaxSmallLen) }

Filler(n) == AppendRun(<<>>, \h41, n)

(* number of source bytes from the planted offset to the end of the source: *)
(* the pattern alone, a short rest, and a rest longer than every cap        *)
RestLens(sig) == { Len(sig), 104, 10 * 1024 * 1024 + 1 }

(* pre filler bytes, then the pattern, then filler up to rest bytes *)
Planted(pre, sig, rest) ==
    Concat(Concat(Filler(pre), FromBytes(sig)), Filler(rest - Len(sig)))

(* every pattern of the table planted once: at offset 20 with each rest,   *)
(* and two bytes before the end of the first MiB                           *)
PlantedInputs ==
    UNION { { Planted(20, SignatureItems[j].sig, rest) :
                rest \in RestLens(SignatureItems[j].sig) }
            \cup { Planted(1024 * 1024 - 2, SignatureItems[j].sig, 104) } :
            j \in 1..Len(SignatureItems) }

Rar == <<\h52, \h61, \h72, \h21>>

Pdf == <<\h25, \h50, \h44, \h46>>

Jpeg == <<\hFF, \hD8, \hFF, \hE0>>

JpegExif == <<\hFF, \hD8, \hFF, \hE1>>

(* two patterns in one source, the first at offset 20, two filler bytes    *)
(* between them: patterns in and against the order of the table, the same  *)
(* pattern twice, two patterns of one extension                            *)
PairInputs ==
    { Concat(Concat(Concat(Planted(20, pair[1], Len(pair[1])), Filler(2)),
                    FromBytes(pair[2])), Filler(60)) :
        pair \in { <<Rar, <<\h50, \h4B, \h03, \h04>> >>,
                   << <<\h50, \h4B, \h03, \h04>>, Pdf>>,
                   <<Jpeg, Jpeg>>,
                   <<JpegExif, Jpeg>> } }

Bmp == <<\h42, \h4D>>

(* the scenario of the specification: 20 leading bytes, then FF D8 FF E0,  *)
(* then 100 bytes 0x41                                                     *)
ScenarioTail == Concat(FromBytes(Jpeg), Filler(100))

(* 20 leading bytes: filler with x at offset at *)
LeadWith(at, x) ==
    Concat(Concat(Filler(at), FromBytes(x)), Filler(20 - at - Len(x)))

(* leading bytes without a pattern of the table, with the first three      *)
(* bytes of the JPEG pattern at their end, and with a pattern of the table *)
(* at their start, in their middle and at their end                        *)
Leads ==
    { Filler(20), AppendRun(<<>>, \hFF, 20), LeadWith(17, <<\hFF, \hD8, \hFF>>) }
        \cup { LeadWith(at, x) : at \in {0, 8, 16}, x \in {Jpeg, JpegExif, Bmp} }

ScenarioInputs == { Concat(lead, ScenarioTail) : lead \in Leads }

(* a pattern wholly beyond the first MiB, a two-byte pattern that begins  *)
(* on its last byte, and a source with one pattern at offset 20, one that  *)
(* begins two bytes before the end of the first MiB and one behind it      *)
PrefixInputs ==
    { Planted(1024 * 1024 + 4, Jpeg, 104),
      Planted(1024 * 1024 - 1, <<\hFF, \hFE>>, 104),
      Concat(Concat(Planted(20, Pdf, 1024 * 1024 - 22), FromBytes(Jpeg)),
             Planted(8, Jpeg, 14)) }

Inputs ==
    SmallInputs \cup PlantedInputs \cup PairInputs \cup ScenarioInputs
        \cup PrefixInputs

Procs == {1, 2}

SourcePaths == {"disk.img", "missing.img"}

OutputDirs == {"out1", "out1/sub"}

(* the directories above dir that mkdir(parents=True) creates with it *)
parents(dir) == IF dir = "out1/sub" THEN {"out1"} ELSE {}

(***************************************************************************)
(* State.                                                                  *)
(***************************************************************************)
NoResult == [scan_type |-> "none"]

IdleCall ==
    [ pc |-> "idle", op |-> "none", source_path |-> "", output_dir |-> "",
      file_size |-> -1, data |-> <<>>, k |-> 0, positions |-> <<>>, i |-> 0,
      file_data |-> <<>>, filename |-> "", recovered_files |-> <<>>,
      result |-> NoResult, error |-> "" ]

(* no run of _find_all_occurrences by itself *)
ScanIdle ==
    [ pc |-> "idle", data |-> <<>>, pattern |-> <<>>, start |-> 0,
      positions |-> <<>> ]

(* the front end before its menu is shown for the first time *)
UIStart == [ pc |-> "menu", choice |-> "", shown |-> 0, printed |-> <<>> ]

Init ==
    /\ \E content \in Inputs : source_files = [p \in {"disk.img"} |-> content]
    /\ dirs = {}
    /\ files = << >>
    /\ call = [p \in Procs |-> IdleCall]
    /\ mode = "sequential"
    /\ ui = UIStart
    /\ scan = ScanIdle

Finished(p) == call[p].pc \in {"done", "raised"}

(* The engine is synchronous.  A sequential caller makes a call when no   *)
(* other call is under way, and call 2 is the one made after call 1; two   *)
(* concurrent callers (threads or processes) each make their call at any   *)
(* time, and the statements of the two calls interleave.                   *)
MayStart(p) ==
    /\ call[p].pc = "idle"
    /\ mode = "sequential" =>
          /\ \A q \in Procs \ {p} : call[q].pc = "idle" \/ Finished(q)
          /\ \A q \in Procs : q < p => call[q].pc # "idle"

(***************************************************************************)
(* quick_scan                                                              *)
(***************************************************************************)

quick_row(signature, info, pos) ==
    [ signature |-> bytes_hex(signature), type |-> info.type,
      extension |-> info.ext, description |-> info.description,
      position |-> pos, confidence |-> "high" ]

(* the rows the loop body appends for one signature *)
quick_rows_of(data, signature, info) ==
    IF bytes_contains(data, signature)
    THEN LET positions == find_all_occurrences(data, signature)
         IN  [j \in 1..Len(positions) |-> quick_row(signature, info, positions[j])]
    ELSE <<>>

(* quick_found_files with a bug: the table is walked from its last entry *)
RECURSIVE quick_found_files_reversed(_, _)
quick_found_files_reversed(data, signatures) ==
    IF signatures = <<>> THEN <<>>
    ELSE quick_found_files_reversed(data, Tail(signatures))
         \o quick_rows_of(data, Head(signatures).sig, Head(signatures))

(* for signature, info in self.signatures.items(): ... *)
RECURSIVE quick_found_files(_, _)
quick_found_files(data, signatures) ==
    IF signatures = <<>> THEN <<>>
    ELSE quick_rows_of(data, Head(signatures).sig, Head(signatures))
         \o quick_found_files(data, Tail(signatures))

(* quick_scan_result with a bug: f.read(), the whole source is scanned *)
quick_scan_result_whole(source_path, content) ==
    LET file_size == BLen(content)
        found_files == quick_found_files(content, load_signatures)
    IN  [ source |-> source_path, size_bytes |-> file_size,
          files_found |-> found_files, scan_type |-> "quick",
          total_signatures |-> Len(found_files) ]

quick_scan_result(source_path, content) ==
    LET file_size == BLen(content)
        data == PySlice(content, 0, 1024 * 1024)
        found_files == quick_found_files(data, load_signatures)
    IN  [ source |-> source_path, size_bytes |-> file_size,
          files_found |-> found_files, scan_type |-> "quick",
          total_signatures |-> Len(found_files) ]

(* QuickScan with a bug: a path that does not exist is scanned as an     *)
(* empty source                                                            *)
QuickScan_missing_is_empty(p, source_path) ==
    /\ MayStart(p)
    /\ call' = [call EXCEPT ![p] =
          [@ EXCEPT !.pc = "done", !.op = "quick_scan",
                    !.source_path = source_path,
                    !.result = quick_scan_result(source_path,
                        IF source_path \in DOMAIN source_files
                        THEN source_files[source_path] ELSE <<>>)]]
    /\ UNCHANGED <<source_files, dirs, files, mode, ui, scan>>

QuickScan(p, source_path) ==
    /\ MayStart(p)
    /\ call' = [call EXCEPT ![p] =
          IF source_path \notin DOMAIN source_files
          THEN [@ EXCEPT !.pc = "raised", !.op = "quick_scan",
                         !.source_path = source_path,
                         !.error = "FileNotFoundError"]
          ELSE [@ EXCEPT !.pc = "done", !.op = "quick_scan",
                         !.source_path = source_path,
                         !.result = quick_scan_result(source_path,
                                                      source_files[source_path])]]
    /\ UNCHANGED <<source_files, dirs, files, mode, ui, scan>>

(***************************************************************************)
(* deep_carve, statement by statement                                      *)
(***************************************************************************)

(* DeepCarve with a bug: the existence test of quick_scan comes first *)
DeepCarve_checks_source(p, source_path, output_dir) ==
    /\ MayStart(p)
    /\ call' = [call EXCEPT ![p] =
          IF source_path \notin DOMAIN source_files
          THEN [@ EXCEPT !.pc = "raised", !.op = "deep_carve",
                         !.source_path = source_path,
                         !.output_dir = output_dir,
                         !.error = "FileNotFoundError"]
          ELSE [@ EXCEPT !.pc = "mkdir", !.op = "deep_carve",
                         !.source_path = source_path,
                         !.output_dir = output_dir]]
    /\ UNCHANGED <<source_files, dirs, files, mode, ui, scan>>

(* the call is made *)
DeepCarve(p, source_path, output_dir) ==
    /\ MayStart(p)
    /\ call' = [call EXCEPT ![p] =
          [@ EXCEPT !.pc = "mkdir", !.op = "deep_carve",
                    !.source_path = source_path, !.output_dir = output_dir]]
    /\ UNCHANGED <<source_files, dirs, files, mode, ui, scan>>

(* DeepMkdir with a bug: the directory is emptied before it is used *)
DeepMkdir_fresh(p) ==
    /\ call[p].pc = "mkdir"
    /\ dirs' = dirs \cup {call[p].output_dir} \cup parents(call[p].output_dir)
    /\ files' = [f \in { g \in DOMAIN files : g[1] # call[p].output_dir } |->
                    files[f]]
    /\ call' = [call EXCEPT ![p].pc = "getsize", ![p].recovered_files = <<>>]
    /\ UNCHANGED <<source_files, mode, ui, scan>>

(* output_path.mkdir(parents=True, exist_ok=True); recovered_files = [] *)
DeepMkdir(p) ==
    /\ call[p].pc = "mkdir"
    /\ dirs' = dirs \cup {call[p].output_dir} \cup parents(call[p].output_dir)
    /\ call' = [call EXCEPT ![p].pc = "getsize", ![p].recovered_files = <<>>]
    /\ UNCHANGED <<source_files, files, mode, ui, scan>>

(* DeepGetsize with a bug: an empty source is refused *)
DeepGetsize_rejects_empty(p) ==
    /\ call[p].pc = "getsize"
    /\ LET c == call[p]
       IN  call' = [call EXCEPT ![p] =
              IF c.source_path \notin DOMAIN source_files
              THEN [c EXCEPT !.pc = "raised", !.error = "FileNotFoundError"]
              ELSE IF BLen(source_files[c.source_path]) = 0
              THEN [c EXCEPT !.pc = "raised", !.error = "ValueError"]
              ELSE [c EXCEPT !.pc = "read",
                             !.file_size = BLen(source_files[c.source_path])]]
    /\ UNCHANGED <<source_files, dirs, files, mode, ui, scan>>

(* file_size = os.path.getsize(source_path) *)
DeepGetsize(p) ==
    /\ call[p].pc = "getsize"
    /\ LET c == call[p]
       IN  call' = [call EXCEPT ![p] =
              IF c.source_path \notin DOMAIN source_files
              THEN [c EXCEPT !.pc = "raised", !.error = "FileNotFoundError"]
              ELSE [c EXCEPT !.pc = "read",
                             !.file_size = BLen(source_files[c.source_path])]]
    /\ UNCHANGED <<source_files, dirs, files, mode, ui, scan>>

(* with open(source_path, 'rb') as source_file: data = source_file.read() *)
DeepRead(p) ==
    /\ call[p].pc = "read"
    /\ LET c == call[p]
       IN  call' = [call EXCEPT ![p] =
              IF c.source_path \notin DOMAIN source_files
              THEN [c EXCEPT !.pc = "raised", !.error = "FileNotFoundError"]
              ELSE [c EXCEPT !.pc = "for_signature", !.k = 0,
                             !.data = source_files[c.source_path]]]
    /\ UNCHANGED <<source_files, dirs, files, mode, ui, scan>>

(* The next iteration, after iteration k, of                              *)
(*     for signature, info in self.signatures.items():                    *)
(*         positions = self._find_all_occurrences(data, signature)        *)
(* whose positions list is not empty; 0 when the loop ends without one.   *)
(* An iteration with no position runs no statement of the inner loop, it  *)
(* is taken together with the iteration that follows it.                  *)
NextSignature(data, k) ==
    LET later == { j \in (k + 1)..Len(load_signatures) :
                     find_all_occurrences(data, load_signatures[j].sig) # <<>> }
    IN  IF later = {} THEN 0 ELSE SetMin(later)

DeepNextSignature(p) ==
    /\ call[p].pc = "for_signature"
    /\ NextSignature(call[p].data, call[p].k) # 0
    /\ LET k == NextSignature(call[p].data, call[p].k)
           positions == find_all_occurrences(call[p].data, load_signatures[k].sig)
       IN  call' = [call EXCEPT ![p].k = k, ![p].positions = positions, ![p].i = 0,
                                ![p].pc = "extract"]
    /\ UNCHANGED <<source_files, dirs, files, mode, ui, scan>>

(* the position after this one, or the next signature *)
AfterPosition(c) ==
    [c EXCEPT !.i = c.i + 1,
              !.pc = IF c.i + 1 < Len(c.positions) THEN "extract"
                     ELSE "for_signature"]

(* bytes_truthy with a bug: fragments shorter than 4 bytes are skipped *)
bytes_truthy_min4(b) == BLen(b) >= 4

(* if b: a bytes object is true when it is not empty *)
bytes_truthy(b) == b # <<>>

(* for i, pos in enumerate(positions):                                    *)
(*     file_data = self._extract_file_data(data, pos, signature, ext)     *)
(*     if file_data:                                                      *)
(*         filename = ...; filepath = output_path / filename              *)
(*         open(filepath, 'wb') creates the file or truncates it          *)
DeepExtractOpen(p) ==
    /\ call[p].pc = "extract"
    /\ LET c == call[p]
           info == load_signatures[c.k]
           pos == c.positions[c.i + 1]
           file_data == extract_file_data(c.data, pos, info.sig, info.ext)
           filename == carved_filename(info.ext, pos, c.i)
           filepath == <<c.output_dir, filename>>
       IN  IF bytes_truthy(file_data)
           THEN /\ files' = [f \in DOMAIN files \cup {filepath} |->
                                IF f = filepath THEN <<>> ELSE files[f]]
                /\ call' = [call EXCEPT ![p].file_data = file_data,
                                        ![p].filename = filename,
                                        ![p].pc = "write"]
           ELSE /\ files' = files
                /\ call' = [call EXCEPT ![p] =
                               AfterPosition([c EXCEPT !.file_data = file_data])]
    /\ UNCHANGED <<source_files, dirs, mode, ui, scan>>

(* written_over with a bug: the file is opened with 'ab', b is appended *)
written_appended(old, b) == Concat(old, b)

(* The content of a file that held old after b is written at its start:  *)
(* a file opened with 'wb' is written from offset 0, and what another      *)
(* writer has put beyond the end of b since the open stays.                *)
written_over(old, b) == Concat(b, PySlice(old, BLen(b), BLen(old)))

(* DeepWrite with a bug: the bytes stay in a buffer that is never flushed, *)
(* the file is recorded while it is empty                                  *)
DeepWrite_unflushed(p) ==
    /\ call[p].pc = "write"
    /\ call' = [call EXCEPT ![p].pc = "record"]
    /\ UNCHANGED <<source_files, dirs, files, mode, ui, scan>>

(* f.write(file_data), and the file is closed *)
DeepWrite(p) ==
    /\ call[p].pc = "write"
    /\ files' = [files EXCEPT ![<<call[p].output_dir, call[p].filename>>] =
                                 written_over(@, call[p].file_data)]
    /\ call' = [call EXCEPT ![p].pc = "record"]
    /\ UNCHANGED <<source_files, dirs, mode, ui, scan>>

(* open(filepath, 'wb') raises OSError (no permission, no space, the      *)
(* directory is gone): the file is not created, the exception leaves       *)
(* deep_carve, which has no handler                                        *)
DeepOpenFails(p) ==
    /\ call[p].pc = "extract"
    /\ LET c == call[p]
           info == load_signatures[c.k]
           pos == c.positions[c.i + 1]
           file_data == extract_file_data(c.data, pos, info.sig, info.ext)
       IN  /\ bytes_truthy(file_data)
           /\ call' = [call EXCEPT ![p] =
                  [c EXCEPT !.pc = "raised", !.error = "OSError",
                            !.file_data = file_data,
                            !.filename = carved_filename(info.ext, pos, c.i)]]
    /\ UNCHANGED <<source_files, dirs, files, mode, ui, scan>>

(* the lengths of the part of file_data that a failed write leaves *)
PartialLens(file_data) == {0, BLen(file_data) \div 2}

(* DeepWriteFails with a bug: an except clause that removes the files the *)
(* call has carved so far                                                  *)
DeepWriteFails_cleanup(p) ==
    /\ call[p].pc = "write"
    /\ LET c == call[p]
           mine == { <<c.output_dir, c.recovered_files[j].filename>> :
                       j \in 1..Len(c.recovered_files) }
                   \cup { <<c.output_dir, c.filename>> }
       IN  files' = [f \in DOMAIN files \ mine |-> files[f]]
    /\ call' = [call EXCEPT ![p].pc = "raised", ![p].error = "OSError"]
    /\ UNCHANGED <<source_files, dirs, mode, ui, scan>>

(* f.write(file_data) or the close raises OSError: a part of file_data is *)
(* in the file, the exception leaves deep_carve                            *)
DeepWriteFails(p) ==
    /\ call[p].pc = "write"
    /\ \E n \in PartialLens(call[p].file_data) :
          files' = [files EXCEPT ![<<call[p].output_dir, call[p].filename>>] =
                       written_over(@, PySlice(call[p].file_data, 0, n))]
    /\ call' = [call EXCEPT ![p].pc = "raised", ![p].error = "OSError"]
    /\ UNCHANGED <<source_files, dirs, mode, ui, scan>>

carved_record(filename, info, file_data, file_hash, pos) ==
    [ filename |-> filename, type |-> info.type, extension |-> info.ext,
      size |-> BLen(file_data), hash_sha256 |-> file_hash,
      original_position |-> pos, description |-> info.description ]

(* DeepRecord with a bug: hashlib.sha256(data), the digest of the source *)
DeepRecord_hashes_source(p) ==
    /\ call[p].pc = "record"
    /\ LET c == call[p]
           info == load_signatures[c.k]
           pos == c.positions[c.i + 1]
           file_hash == sha256_hexdigest(c.data)
       IN  call' = [call EXCEPT ![p] =
              AfterPosition([c EXCEPT !.recovered_files =
                  Append(@, carved_record(c.filename, info, c.file_data,
                                          file_hash, pos))])]
    /\ UNCHANGED <<source_files, dirs, files, mode, ui, scan>>

(* file_hash = hashlib.sha256(file_data).hexdigest()                      *)
(* recovered_files.append({...})                                          *)
DeepRecord(p) ==
    /\ call[p].pc = "record"
    /\ LET c == call[p]
           info == load_signatures[c.k]
           pos == c.positions[c.i + 1]
           file_hash == sha256_hexdigest(c.file_data)
       IN  call' = [call EXCEPT ![p] =
              AfterPosition([c EXCEPT !.recovered_files =
                  Append(@, carved_record(c.filename, info, c.file_data,
                                          file_hash, pos))])]
    /\ UNCHANGED <<source_files, dirs, files, mode, ui, scan>>

(* return {'recovered_files': ..., 'total_recovered': ..., ...} *)
DeepReturn(p) ==
    /\ call[p].pc = "for_signature"
    /\ NextSignature(call[p].data, call[p].k) = 0
    /\ call' = [call EXCEPT ![p].pc = "done",
                            ![p].k = Len(load_signatures),
                            ![p].positions = <<>>,
                            ![p].result =
                                [ recovered_files |-> call[p].recovered_files,
                                  total_recovered |-> Len(call[p].recovered_files),
                                  output_directory |-> call[p].output_dir ]]
    /\ UNCHANGED <<source_files, dirs, files, mode, ui, scan>>

(* the paths the callers pass: those of the sources and one of no file *)
PathsPassed == SourcePaths \cup DOMAIN source_files

Next ==
    \E p \in Procs :
        \/ \E source_path \in PathsPassed : QuickScan(p, source_path)
        \/ \E source_path \in PathsPassed, output_dir \in OutputDirs :
               DeepCarve(p, source_path, output_dir)
        \/ DeepMkdir(p)
        \/ DeepGetsize(p)
        \/ DeepRead(p)
        \/ DeepNextSignature(p)
        \/ DeepExtractOpen(p)
        \/ DeepOpenFails(p)
        \/ DeepWrite(p)
        \/ DeepWriteFails(p)
        \/ DeepRecord(p)
        \/ DeepReturn(p)

Spec == Init /\ [][Next]_vars

(***************************************************************************)
(* Two callers at once, two sources, an output directory that is in use.   *)
(***************************************************************************)

TwoJpegs ==
    Concat(Concat(Concat(Planted(20, Jpeg, 4), Filler(2)), FromBytes(Jpeg)),
           Filler(60))

(* the contents of disk.img and other.img: the same pattern at the same    *)
(* offset with different bytes after it; two occurrences and one of        *)
(* another pattern; two overlapping two-byte patterns and two patterns     *)
ConcurrentInputs ==
    { <<Planted(20, Jpeg, 104), Planted(20, Jpeg, 64)>>,
      <<TwoJpegs, Planted(8, Pdf, 40)>>,
      <<FromBytes(<<\hFF, \hFE, \hFF>>), Concat(LeadWith(0, Bmp), ScenarioTail)>> }

(* files that are in out1 before any call: one that is not a carved file,  *)
(* one left by an earlier carve under a name the calls derive again, with  *)
(* more bytes than they write, and one under a name they do not derive     *)
EarlierFiles ==
    [ f \in { <<"out1", "notes.txt">>,
              <<"out1", "carved_jpg_00000014_0.jpg">>,
              <<"out1", "carved_png_00000000_0.png">> } |->
        IF f[2] = "notes.txt" THEN Filler(7)
        ELSE IF f[2] = "carved_jpg_00000014_0.jpg" THEN Filler(200)
        ELSE Filler(9) ]

InitConcurrent ==
    /\ \E pair \in ConcurrentInputs :
          source_files = [p \in {"disk.img", "other.img"} |->
                             IF p = "disk.img" THEN pair[1] ELSE pair[2]]
    /\ dirs = {"out1"}
    /\ files = EarlierFiles
    /\ call = [p \in Procs |-> IdleCall]
    /\ mode = "concurrent"
    /\ ui = UIStart
    /\ scan = ScanIdle

SpecConcurrent == InitConcurrent /\ [][Next]_vars

(***************************************************************************)
(* The interactive front end (src/src/gui/interactive_mode.py,             *)
(* InteractiveMode.run and its flows).  What the user enters and how the   *)
(* system probes turn out are inputs; an exception that no handler of the  *)
(* front end catches leaves run(), and the menu loop with it.              *)
(***************************************************************************)

(* how many times the main menu is shown *)
MaxShown == 3

(* the choices of the main menu; questionary's ask() gives None when the  *)
(* prompt is cancelled                                                     *)
Choices ==
    { "Quick Scan", "Deep Forensic Scan", "File Carving", "Partition Analysis",
      "System Information", "Exit", "None" }

(* back in the while loop of run(), having printed msgs *)
BackToMenu(msgs) == [ui EXCEPT !.pc = "menu", !.printed = @ \o msgs]

(* an exception leaves the flow and run() *)
Propagates(exception, msgs) ==
    [ui EXCEPT !.pc = "propagated", !.printed = (@ \o msgs) \o <<exception>>]

(* choice = self.main_menu(), and the if/elif chain of run() *)
MainMenu ==
    /\ ui.pc = "menu"
    /\ ui.shown < MaxShown
    /\ \E choice \in Choices :
          ui' = [ ui EXCEPT
                    !.choice = choice,
                    !.shown = @ + 1,
                    !.pc = IF choice = "Exit" THEN "exited"
                           ELSE IF choice = "None" THEN "menu"
                           ELSE "flow",
                    !.printed = IF choice = "Exit"
                                THEN Append(@, "Thank you for using CyberRecover Pro!")
                                ELSE @ ]
    /\ UNCHANGED <<source_files, dirs, files, call, mode, scan>>

(* quick_scan_flow: an empty source returns at once; carver.quick_scan is *)
(* called in a try block whose handler prints the error                    *)
QuickScanFlow ==
    /\ ui.pc = "flow" /\ ui.choice = "Quick Scan"
    /\ \E source \in PathsPassed \cup {""} :
          ui' = IF source = "" THEN BackToMenu(<<>>)
                ELSE IF source \notin DOMAIN source_files
                THEN BackToMenu(<<"Error during quick scan">>)
                ELSE BackToMenu(<<"Quick Scan Results">>)
    /\ UNCHANGED <<source_files, dirs, files, call, mode, scan>>

(* deep_scan_flow: forensics.deep_scan is called in a try block whose     *)
(* handler prints the error; it raises when the source prompt was          *)
(* cancelled (Path(None)), a path of no file gives an error entry          *)
DeepScanFlow ==
    /\ ui.pc = "flow" /\ ui.choice = "Deep Forensic Scan"
    /\ \E source \in PathsPassed \cup {"None"} :
          ui' = IF source = "None"
                THEN BackToMenu(<<"Error during deep scan">>)
                ELSE BackToMenu(<<"Deep scan completed!">>)
    /\ UNCHANGED <<source_files, dirs, files, call, mode, scan>>

(* system_info_flow, no try block: display_partitions() raises what psutil *)
(* raises other than PermissionError; get_detailed_system_info() returns   *)
(* {'error': ...} when a probe fails, and info['os'] raises KeyError        *)
SystemInfoFlow ==
    /\ ui.pc = "flow" /\ ui.choice = "System Information"
    /\ \E outcome \in {"ok", "partitions raise", "info has no os"} :
          ui' = IF outcome = "partitions raise" THEN Propagates("OSError", <<>>)
                ELSE IF outcome = "info has no os"
                THEN Propagates("KeyError", <<"System Partitions">>)
                ELSE BackToMenu(<<"System Partitions", "Detailed System Info">>)
    /\ UNCHANGED <<source_files, dirs, files, call, mode, scan>>

(* file_carving_flow, no try block: carver.display_capabilities() uses    *)
(* Table, which advanced_carver.py does not import, and raises NameError;  *)
(* the question about test carving and test_carving_flow are not reached   *)
FileCarvingFlow ==
    /\ ui.pc = "flow" /\ ui.choice = "File Carving"
    /\ ui' = Propagates("NameError", <<>>)
    /\ UNCHANGED <<source_files, dirs, files, call, mode, scan>>

(* partition_analysis_flow, no try block: display_partitions() *)
PartitionAnalysisFlow ==
    /\ ui.pc = "flow" /\ ui.choice = "Partition Analysis"
    /\ \E outcome \in {"ok", "partitions raise"} :
          ui' = IF outcome = "partitions raise" THEN Propagates("OSError", <<>>)
                ELSE BackToMenu(<<"System Partitions">>)
    /\ UNCHANGED <<source_files, dirs, files, call, mode, scan>>

InitUI ==
    /\ source_files = [p \in {"disk.img"} |-> Planted(20, Jpeg, 104)]
    /\ dirs = {}
    /\ files = << >>
    /\ call = [p \in Procs |-> IdleCall]
    /\ mode = "sequential"
    /\ ui = UIStart
    /\ scan = ScanIdle

NextUI ==
    \/ MainMenu
    \/ QuickScanFlow
    \/ DeepScanFlow
    \/ SystemInfoFlow
    \/ FileCarvingFlow
    \/ PartitionAnalysisFlow

SpecUI == InitUI /\ [][NextUI]_vars

(***************************************************************************)
(* _find_all_occurrences taken by itself, iteration by iteration, on any   *)
(* buffer and any pattern that is not empty.                               *)
(***************************************************************************)

(* longest buffer enumerated byte by byte for the scanner *)
MaxFindLen == 6

FindBuffers ==
    { FromBytes(b) : b \in SeqsUpTo(MaxFindLen) } \cup PairInputs \cup ScenarioInputs

(* the patterns of the table, and patterns that no table entry has: of    *)
(* one byte, of equal bytes, and with a prefix that is also a suffix       *)
FindPatterns ==
    { SignatureItems[j].sig : j \in 1..Len(SignatureItems) }
        \cup { <<\hFF>>, <<\hFF, \hFF>>, <<\hFF, \hFE, \hFF>>, <<\h41, \h41, \h41>> }

(* positions = []; start = 0 *)
InitFind ==
    /\ source_files = [p \in {"disk.img"} |-> Planted(20, Jpeg, 104)]
    /\ dirs = {}
    /\ files = << >>
    /\ call = [p \in Procs |-> IdleCall]
    /\ mode = "sequential"
    /\ ui = UIStart
    /\ \E data \in FindBuffers, pattern \in FindPatterns :
          scan = [ pc |-> "loop", data |-> data, pattern |-> pattern,
                   start |-> 0, positions |-> <<>> ]

(* pos = data.find(pattern, start); pos is not -1:                         *)
(* positions.append(pos); start = pos + 1                                  *)
FindAppend ==
    /\ scan.pc = "loop"
    /\ LET pos == bytes_find(scan.data, scan.pattern, scan.start)
       IN  /\ pos # -1
           /\ scan' = [scan EXCEPT !.positions = Append(@, pos),
                                   !.start = next_start(pos, scan.pattern)]
    /\ UNCHANGED <<source_files, dirs, files, call, mode, ui>>

(* pos = data.find(pattern, start); pos == -1: break; return positions *)
FindReturn ==
    /\ scan.pc = "loop"
    /\ bytes_find(scan.data, scan.pattern, scan.start) = -1
    /\ scan' = [scan EXCEPT !.pc = "returned"]
    /\ UNCHANGED <<source_files, dirs, files, call, mode, ui>>

NextFind == FindAppend \/ FindReturn

(* the loop is straight-line code of one thread: it goes on while it can *)
SpecFind == InitFind /\ [][NextFind]_vars /\ WF_vars(NextFind)

(***************************************************************************)
(* Properties.                                                             *)
(***************************************************************************)

Range(s) == { s[j] : j \in 1..Len(s) }

(* sources up to this length are examined at every offset *)
EnumLen == 128

(* the offsets at which the runs of d start *)
RECURSIVE RunStartsFrom(_, _, _)
RunStartsFrom(d, r, at) ==
    IF r > Len(d) THEN {}
    ELSE {at} \cup RunStartsFrom(d, r + 1, at + d[r].n)

(* The offsets examined for a pattern of m bytes: all of them in a short   *)
(* source; in a long one those within m bytes of the start of a run, and   *)
(* a pattern of at least two different bytes matches nowhere else.         *)
ScanOffsets(d, m) ==
    IF BLen(d) <= EnumLen THEN 0..BLen(d)
    ELSE { o \in UNION { (s - m)..(s + m) : s \in RunStartsFrom(d, 1, 0) } : o >= 0 }

NotConstant(pattern) == \E j \in 1..Len(pattern) : pattern[j] # pattern[1]

(* the offsets o with d[o : o+len(pattern)] = pattern *)
Occurrences(d, pattern) ==
    { o \in ScanOffsets(d, Len(pattern)) : MatchAt(d, pattern, o) }

Patterns == { SignatureItems[j].sig : j \in 1..Len(SignatureItems) }

(* the item of the dict display a row or record takes its labels from *)
ItemOf(r) ==
    CHOOSE e \in Range(SignatureItems) : e.description = r.description

(* call p has returned, and the caller has not made its next call *)
Returned(p) ==
    /\ call[p].pc = "done"
    /\ \A q \in Procs : q > p => call[q].pc = "idle"

IsDeep(p) == call[p].op = "deep_carve"

IsQuick(p) == call[p].op = "quick_scan"

(* the bytes quick_scan scans *)
QuickData(p) == PySlice(source_files[call[p].source_path], 0, 1024 * 1024)

(* positions is the strictly ascending list of exactly the occurrences *)
ExactlyOccurrences(positions, d, pattern) ==
    /\ Range(positions) = Occurrences(d, pattern)
    /\ Len(positions) = Cardinality(Range(positions))

(* C1: the scanner reports exactly the offsets at which the pattern       *)
(* occurs: in deep_carve the positions computed for the current signature, *)
(* in quick_scan the rows of each pattern of the table; adjacent and       *)
(* overlapping matches included, no offset twice, no other offset.         *)
C1_ScannerExact ==
    /\ \A P \in Patterns : NotConstant(P)
    /\ \A p \in Procs :
        /\ (IsDeep(p) /\ call[p].pc \in {"extract", "write", "record"}) =>
              ExactlyOccurrences(call[p].positions, call[p].data,
                                 load_signatures[call[p].k].sig)
        /\ Returned(p) =>
              \A e \in Range(load_signatures) :
                  LET all == IF IsQuick(p) THEN call[p].result.files_found
                             ELSE call[p].result.recovered_files
                      rows == SelectSeq(all, LAMBDA r : r.description = e.description)
                  IN  ExactlyOccurrences(
                          [j \in 1..Len(rows) |->
                              IF IsQuick(p) THEN rows[j].position
                              ELSE rows[j].original_position],
                          IF IsQuick(p) THEN QuickData(p) ELSE call[p].data,
                          e.sig)

(* C1 witness: two adjacent matches of one pattern were reported, and a   *)
(* match of another pattern overlaps them                                  *)
C1_Witness ==
    \E p \in Procs :
        /\ IsDeep(p) /\ call[p].pc = "record" /\ Len(call[p].positions) >= 2
        /\ call[p].positions[2] =
              call[p].positions[1] + Len(load_signatures[call[p].k].sig)
        /\ \E P \in Patterns :
              MatchAt(call[p].data, P, call[p].positions[1] + 1)

(* C10: no reported offset is negative or so late that the match would   *)
(* run past the end of the scanned buffer; in particular a buffer shorter  *)
(* than the pattern yields no offset for it.                               *)
C10_MatchInsideBuffer ==
    \A p \in Procs :
        /\ (IsDeep(p) /\ call[p].pc \in {"extract", "write", "record"}) =>
              \A j \in 1..Len(call[p].positions) :
                  /\ 0 <= call[p].positions[j]
                  /\ call[p].positions[j] + Len(load_signatures[call[p].k].sig)
                        <= BLen(call[p].data)
        /\ Returned(p) =>
              LET rows == IF IsQuick(p) THEN call[p].result.files_found
                          ELSE call[p].result.recovered_files
                  L == IF IsQuick(p) THEN BLen(QuickData(p)) ELSE BLen(call[p].data)
              IN  \A j \in 1..Len(rows) :
                      LET o == IF IsQuick(p) THEN rows[j].position
                               ELSE rows[j].original_position
                      IN  /\ 0 <= o
                          /\ o + Len(ItemOf(rows[j]).sig) <= L
                          /\ Len(ItemOf(rows[j]).sig) <= L

(* C10 witness: a reported match ends exactly at the end of the buffer,   *)
(* which holds the first bytes of a longer pattern just before its end     *)
C10_Witness ==
    \E p \in Procs :
        /\ IsDeep(p) /\ call[p].pc = "record"
        /\ call[p].positions[Len(call[p].positions)]
              + Len(load_signatures[call[p].k].sig) = BLen(call[p].data)
        /\ \E P \in Patterns :
              /\ ByteAt(call[p].data, BLen(call[p].data) - 1) = P[1]
              /\ ~MatchAt(call[p].data, P, BLen(call[p].data) - 1)

(* the first n bytes of d *)
RECURSIVE TakeBytes(_, _)
TakeBytes(d, n) ==
    IF n <= 0 \/ d = <<>> THEN <<>>
    ELSE IF Head(d).n >= n THEN <<[b |-> Head(d).b, n |-> n]>>
    ELSE <<Head(d)>> \o TakeBytes(Tail(d), n - Head(d).n)

(* d without its first n bytes *)
RECURSIVE DropBytes(_, _)
DropBytes(d, n) ==
    IF n <= 0 \/ d = <<>> THEN d
    ELSE IF Head(d).n > n THEN <<[b |-> Head(d).b, n |-> Head(d).n - n]>> \o Tail(d)
    ELSE DropBytes(Tail(d), n - Head(d).n)

KiB == 1024

MiB == 1024 * 1024

(* call p is a deep_carve and the caller has made no call after it *)
Carving(p) ==
    /\ IsDeep(p)
    /\ \A q \in Procs : q > p => call[q].pc = "idle"

SourceOf(p) == source_files[call[p].source_path]

(* the file that record r of call p names *)
FileOf(p, r) == files[<<call[p].output_dir, r.filename>>]

(* the record's file is the n bytes of the source from the record's offset *)
CarvedIs(p, r, n) ==
    /\ <<call[p].output_dir, r.filename>> \in DOMAIN files
    /\ BLen(FileOf(p, r)) = n
    /\ FileOf(p, r) = TakeBytes(DropBytes(SourceOf(p), r.original_position), n)
    /\ r.size = n
    /\ r.hash_sha256 = sha256_hexdigest(FileOf(p, r))

(* the cap deep_carve processes an occurrence with *)
CapUsed(ext) ==
    IF ext \in {"jpg", "png", "gif"} THEN MiB
    ELSE IF ext \in {"pdf", "docx"} THEN 10 * MiB
    ELSE IF ext \in {"zip", "rar"} THEN 5 * MiB
    ELSE 512 * KiB

(* C2: every record of a deep_carve names a file on disk that holds       *)
(* min(C, L - o) bytes, begins with the pattern, equals                    *)
(* buffer[o : o + min(C, L - o)], and the record's size and hash_sha256    *)
(* are the length and the digest of the bytes in that file.                *)
C2_CarvedSlice ==
    \A p \in Procs : Carving(p) =>
        \A j \in 1..Len(call[p].recovered_files) :
            LET r == call[p].recovered_files[j]
                P == ItemOf(r).sig
                o == r.original_position
                L == BLen(SourceOf(p))
            IN  /\ MatchAt(SourceOf(p), P, o)
                /\ CarvedIs(p, r, Min2(CapUsed(r.extension), L - o))
                /\ TakeBytes(FileOf(p, r), Len(P)) = FromBytes(P)

(* C2 witness: a carved file was cut at the cap, bytes of the source      *)
(* follow it; and the call has returned                                    *)
C2_Witness ==
    \E p \in Procs :
        /\ Carving(p) /\ call[p].pc = "done"
        /\ \E j \in 1..Len(call[p].recovered_files) :
              LET r == call[p].recovered_files[j]
              IN  /\ r.size = CapUsed(r.extension)
                  /\ r.size < BLen(SourceOf(p)) - r.original_position
                  /\ BLen(FileOf(p, r)) = r.size

(* C3 as claimed: every occurrence of an image signature (jpg, png, gif,  *)
(* bmp, tif) is carved with the cap of 1 MiB.                              *)
C3_ImageCapOneMiB ==
    \A p \in Procs : Carving(p) =>
        \A j \in 1..Len(call[p].recovered_files) :
            LET r == call[p].recovered_files[j]
            IN  r.type = "image" =>
                    r.size = Min2(MiB, BLen(SourceOf(p)) - r.original_position)

(* the caps C4 names, 0 for an extension it does not name *)
C4Cap(ext) ==
    IF ext \in {"pdf", "docx"} THEN 10 * MiB
    ELSE IF ext \in {"zip", "rar"} THEN 5 * MiB
    ELSE IF ext \in {"7z", "doc", "mp3", "avi", "mp4", "mkv", "elf", "exe",
                     "class", "sqlite", "txt"} THEN 512 * KiB
    ELSE 0

ZipMagic == <<\h50, \h4B, \h03, \h04>>

(* C4: a record that is not an image is the slice of the source from its  *)
(* offset, cut only by the cap of its extension (10 MiB pdf and docx,      *)
(* 5 MiB zip and rar, 512 KiB the others) and by the end of the source;    *)
(* every match of 50 4B 03 04 is cut at 10 MiB.                            *)
C4_NonImageCaps ==
    \A p \in Procs : Carving(p) =>
        \A j \in 1..Len(call[p].recovered_files) :
            LET r == call[p].recovered_files[j]
                rest == BLen(SourceOf(p)) - r.original_position
            IN  /\ r.type # "image" =>
                      /\ C4Cap(r.extension) > 0
                      /\ CarvedIs(p, r, Min2(C4Cap(r.extension), rest))
                /\ MatchAt(SourceOf(p), ZipMagic, r.original_position) =>
                      CarvedIs(p, r, Min2(10 * MiB, rest))

(* C4 witness: a zip record cut at 5 MiB with source bytes after it *)
C4_Witness ==
    \E p \in Procs :
        /\ Carving(p) /\ call[p].pc = "done"
        /\ \E j \in 1..Len(call[p].recovered_files) :
              LET r == call[p].recovered_files[j]
              IN  /\ r.extension = "zip"
                  /\ r.size = 5 * MiB
                  /\ BLen(FileOf(p, r)) = 5 * MiB
                  /\ BLen(SourceOf(p)) - r.original_position > 5 * MiB

DocxItem == Entry(ZipMagic, "docx", "document", "Microsoft Office (new)")

(* the rows of call p's result, and the offset of a row *)
RowsOf(p) ==
    IF IsQuick(p) THEN call[p].result.files_found
    ELSE call[p].result.recovered_files

OffsetOf(p, r) == IF IsQuick(p) THEN r.position ELSE r.original_position

(* the bytes call p scanned *)
ScannedBy(p) == IF IsQuick(p) THEN QuickData(p) ELSE call[p].data

(* C5: the table holds 50 4B 03 04 once, with the docx labels; each       *)
(* occurrence of the pattern gives exactly one row, labelled docx and      *)
(* never zip, in quick_scan and in deep_carve.                             *)
C5_ZipMagicIsDocx ==
    /\ \A j \in 1..Len(load_signatures) :
          load_signatures[j].sig = ZipMagic => load_signatures[j] = DocxItem
    /\ Cardinality({ j \in 1..Len(load_signatures) :
                       load_signatures[j].sig = ZipMagic }) = 1
    /\ \A p \in Procs : Returned(p) =>
          \A o \in Occurrences(ScannedBy(p), ZipMagic) :
              LET at == SelectSeq(RowsOf(p), LAMBDA r : OffsetOf(p, r) = o)
              IN  /\ Len(at) = 1
                  /\ at[1].extension = "docx"
                  /\ at[1].type = "document"
                  /\ at[1].description = "Microsoft Office (new)"
                  /\ IsQuick(p) => at[1].signature = "504b0304"

(* C5 witness: a quick_scan and then a deep_carve of a source that holds  *)
(* the pattern have both returned their docx row                           *)
C5_Witness ==
    /\ call[1].pc = "done" /\ IsQuick(1)
    /\ Returned(2) /\ IsDeep(2)
    /\ Occurrences(ScannedBy(2), ZipMagic) # {}
    /\ \E j \in 1..Len(RowsOf(1)) : RowsOf(1)[j].extension = "docx"
    /\ \E j \in 1..Len(RowsOf(2)) : RowsOf(2)[j].extension = "docx"

(* the place of a row's signature in the iteration order of the table *)
TableIndex(r) ==
    CHOOSE j \in 1..Len(load_signatures) :
        load_signatures[j].description = r.description

(* rows grouped by signature in table order, ascending offsets within *)
Grouped(p, rows) ==
    \A j, j2 \in 1..Len(rows) : j < j2 =>
        \/ TableIndex(rows[j]) < TableIndex(rows[j2])
        \/ /\ TableIndex(rows[j]) = TableIndex(rows[j2])
           /\ OffsetOf(p, rows[j]) < OffsetOf(p, rows[j2])

(* C6: files_found and recovered_files are grouped by signature in the    *)
(* iteration order of the table with strictly ascending offsets within a   *)
(* signature, and a carved file is written after the files of all records  *)
(* so far: its signature is the last one's or a later one, its offset      *)
(* higher within the same signature.                                       *)
C6_TableOrderThenOffset ==
    \A p \in Procs :
        /\ Returned(p) => Grouped(p, RowsOf(p))
        /\ Carving(p) =>
              /\ Grouped(p, call[p].recovered_files)
              /\ call[p].pc \in {"write", "record"} =>
                    \A j \in 1..Len(call[p].recovered_files) :
                        LET r == call[p].recovered_files[j]
                        IN  \/ TableIndex(r) < call[p].k
                            \/ /\ TableIndex(r) = call[p].k
                               /\ r.original_position
                                     < call[p].positions[call[p].i + 1]

(* C6 witness: a returned deep_carve with two records of one signature    *)
(* and, after them, a record of a later signature at a lower offset than   *)
(* the second                                                              *)
C6_Witness ==
    \E p \in Procs :
        /\ Returned(p) /\ IsDeep(p)
        /\ \E j \in 1..Len(RowsOf(p)) :
              /\ j + 2 <= Len(RowsOf(p))
              /\ TableIndex(RowsOf(p)[j]) = TableIndex(RowsOf(p)[j + 1])
              /\ TableIndex(RowsOf(p)[j + 1]) < TableIndex(RowsOf(p)[j + 2])
              /\ RowsOf(p)[j + 2].original_position
                    < RowsOf(p)[j + 1].original_position

LowerHex ==
    << "0", "1", "2", "3", "4", "5", "6", "7",
       "8", "9", "a", "b", "c", "d", "e", "f" >>

(* 16^e *)
RECURSIVE Pow16(_)
Pow16(e) == IF e = 0 THEN 1 ELSE 16 * Pow16(e - 1)

(* digit j, counted from the left, of the 8 hex digits of n *)
Digit8(n, j) == LowerHex[((n \div Pow16(8 - j)) % 16) + 1]

EightHexDigits(n) ==
    Digit8(n, 1) \o Digit8(n, 2) \o Digit8(n, 3) \o Digit8(n, 4)
        \o Digit8(n, 5) \o Digit8(n, 6) \o Digit8(n, 7) \o Digit8(n, 8)

(* C7: a record's filename is carved_{extension}_{offset in 8 lowercase   *)
(* hex digits}_{index}.{extension}, the index being the number of          *)
(* occurrences of the same signature at lower offsets, and the carved file *)
(* is in output_dir under that name.                                       *)
C7_Filename ==
    \A p \in Procs : Carving(p) =>
        \A j \in 1..Len(call[p].recovered_files) :
            LET r == call[p].recovered_files[j]
                o == r.original_position
                rank == Cardinality({ x \in Occurrences(SourceOf(p), ItemOf(r).sig) :
                                        x < o })
            IN  /\ r.filename = "carved_" \o r.extension \o "_" \o EightHexDigits(o)
                                   \o "_" \o ToString(rank) \o "." \o r.extension
                /\ <<call[p].output_dir, r.filename>> \in DOMAIN files

(* C7 witness: the second occurrence of the JPEG pattern, at offset 26,   *)
(* was carved into carved_jpg_0000001a_1.jpg                               *)
C7_Witness ==
    \E p \in Procs :
        /\ Returned(p) /\ IsDeep(p)
        /\ \E j \in 1..Len(RowsOf(p)) :
              /\ RowsOf(p)[j].filename = "carved_jpg_0000001a_1.jpg"
              /\ RowsOf(p)[j].original_position = 26
        /\ <<call[p].output_dir, "carved_jpg_0000001a_1.jpg">> \in DOMAIN files

(* the names of the files in directory dir *)
NamesIn(dir) == { f[2] : f \in { g \in DOMAIN files : g[1] = dir } }

(* C8: two deep_carve calls on the same source into different directories *)
(* return the same records (filename, type, extension, size, hash_sha256,  *)
(* original_position agree element by element), leave the same names in    *)
(* the two directories with the same bytes under each name, and differ in  *)
(* output_directory only.                                                  *)
C8_Deterministic ==
    \A p, q \in Procs :
        ( /\ p # q
          /\ IsDeep(p) /\ IsDeep(q)
          /\ call[p].pc = "done" /\ call[q].pc = "done"
          /\ call[p].source_path = call[q].source_path
          /\ call[p].output_dir # call[q].output_dir ) =>
            /\ call[p].result.recovered_files = call[q].result.recovered_files
            /\ call[p].result.total_recovered = call[q].result.total_recovered
            /\ call[p].result.output_directory # call[q].result.output_directory
            /\ NamesIn(call[p].output_dir) = NamesIn(call[q].output_dir)
            /\ \A n \in NamesIn(call[p].output_dir) :
                  files[<<call[p].output_dir, n>>] = files[<<call[q].output_dir, n>>]

(* C8 witness: both calls have returned, with files carved *)
C8_Witness ==
    /\ IsDeep(1) /\ IsDeep(2)
    /\ call[1].pc = "done" /\ call[2].pc = "done"
    /\ call[1].source_path = call[2].source_path
    /\ call[1].output_dir # call[2].output_dir
    /\ Len(call[2].result.recovered_files) >= 2
    /\ NamesIn(call[1].output_dir) # {}

(* C9: on an existing source of 0 bytes neither call raises; quick_scan   *)
(* returns no row, total_signatures 0 and size_bytes 0; deep_carve returns *)
(* no record, total_recovered 0, and writes no file.                       *)
C9_EmptySource ==
    \A p \in Procs :
        ( /\ call[p].source_path \in DOMAIN source_files
          /\ SourceOf(p) = <<>> ) =>
            /\ call[p].pc # "raised"
            /\ (call[p].pc = "done" /\ IsQuick(p)) =>
                  /\ call[p].result.files_found = <<>>
                  /\ call[p].result.total_signatures = 0
                  /\ call[p].result.size_bytes = 0
            /\ (call[p].pc = "done" /\ IsDeep(p)) =>
                  /\ call[p].result.recovered_files = <<>>
                  /\ call[p].result.total_recovered = 0
            /\ IsDeep(p) => NamesIn(call[p].output_dir) = {}

(* C9 witness: a quick_scan and a deep_carve of the empty source have     *)
(* both returned                                                           *)
C9_Witness ==
    /\ source_files["disk.img"] = <<>>
    /\ call[1].pc = "done" /\ IsQuick(1) /\ call[1].source_path = "disk.img"
    /\ call[2].pc = "done" /\ IsDeep(2) /\ call[2].source_path = "disk.img"
    /\ call[2].output_dir \in dirs

(* call p was made on the scenario's buffer *)
OnScenario(p) ==
    /\ call[p].source_path \in DOMAIN source_files
    /\ BLen(SourceOf(p)) = 124
    /\ PySlice(SourceOf(p), 20, 124) = ScenarioTail

(* the rows of call p that are JPEG occurrences *)
JpegRows(p) == SelectSeq(RowsOf(p), LAMBDA r : r.extension = "jpg")

(* the rows of call p at offset o *)
RowsAt(p, o) == SelectSeq(RowsOf(p), LAMBDA r : OffsetOf(p, r) = o)

(* the occurrences of the patterns in ps that begin in the leading bytes *)
InLead(p, ps) ==
    { <<P, o>> \in ps \X (0..19) : MatchAt(SourceOf(p), P, o) }

(* C11 as claimed: for every choice of the 20 leading bytes quick_scan    *)
(* reports exactly one JPEG occurrence, at position 20.                    *)
C11_ExactlyOneJpeg ==
    \A p \in Procs : (Returned(p) /\ IsQuick(p) /\ OnScenario(p)) =>
        /\ Len(JpegRows(p)) = 1
        /\ JpegRows(p)[1].position = 20

(* C11, amended: for every choice of the 20 leading bytes quick_scan      *)
(* reports the occurrence of FF D8 FF E0 at position 20 exactly once, as a *)
(* JPEG; its JPEG rows are that one and one for each occurrence of         *)
(* FF D8 FF E0 or FF D8 FF E1 in the leading bytes, so it is the only one  *)
(* exactly when the leading bytes hold neither pattern.                    *)
C11_JpegAtTwenty ==
    \A p \in Procs : (Returned(p) /\ IsQuick(p) /\ OnScenario(p)) =>
        /\ Len(RowsAt(p, 20)) = 1
        /\ RowsAt(p, 20)[1] =
              [ signature |-> "ffd8ffe0", type |-> "image", extension |-> "jpg",
                description |-> "JPEG Image", position |-> 20,
                confidence |-> "high" ]
        /\ Len(JpegRows(p)) = 1 + Cardinality(InLead(p, {Jpeg, JpegExif}))
        /\ \A j \in 1..Len(JpegRows(p)) : JpegRows(p)[j].position <= 20
        /\ call[p].result.total_signatures = Len(call[p].result.files_found)

(* C11 witness: quick_scan has returned on a scenario buffer whose        *)
(* leading bytes hold the JPEG pattern, with two JPEG rows                 *)
C11_Witness ==
    \E p \in Procs :
        /\ Returned(p) /\ IsQuick(p) /\ OnScenario(p)
        /\ InLead(p, {Jpeg}) # {}
        /\ Len(JpegRows(p)) = 2
        /\ JpegRows(p)[2].position = 20

Missing(p) ==
    /\ call[p].pc # "idle"
    /\ call[p].source_path \notin DOMAIN source_files

(* C13: a call on a path that does not exist ends in FileNotFoundError,   *)
(* with no result; it never reads (its data stays unread), never computes  *)
(* positions and never records a file: quick_scan raises in its first      *)
(* statement, deep_carve in getsize after it has created output_dir.  A    *)
(* call that has raised takes no further step: nothing is retried.         *)
C13_NotFoundUpFront ==
    /\ [](\A p \in Procs : Missing(p) =>
            /\ call[p].pc \in {"mkdir", "getsize", "raised"}
            /\ call[p].pc = "raised" => call[p].error = "FileNotFoundError"
            /\ IsQuick(p) => call[p].pc = "raised"
            /\ call[p].file_size = -1
            /\ call[p].data = <<>>
            /\ call[p].k = 0 /\ call[p].positions = <<>>
            /\ call[p].recovered_files = <<>>
            /\ call[p].result = NoResult
            /\ \A n \in NamesIn(call[p].output_dir) :
                  \E q \in Procs \ {p} : call[q].output_dir = call[p].output_dir)
    /\ [][\A p \in Procs : call[p].pc = "raised" => call'[p] = call[p]]_vars

(* C13 witness: a quick_scan and a deep_carve of the missing path have    *)
(* both raised                                                             *)
C13_Witness ==
    /\ IsQuick(1) /\ Missing(1) /\ call[1].pc = "raised"
    /\ IsDeep(2) /\ Missing(2) /\ call[2].pc = "raised"
    /\ call[2].error = "FileNotFoundError"

(* the positions of the rows of call p that carry the labels of entry e *)
PositionsOf(p, e) ==
    { OffsetOf(p, RowsOf(p)[j]) :
        j \in { i \in 1..Len(RowsOf(p)) : RowsOf(p)[i].description = e.description } }

(* C14: quick_scan reports, for each pattern, exactly the occurrences in  *)
(* the source that end within its first 1,048,576 bytes, so that           *)
(* position + len(pattern) <= min(source size, 1 MiB); size_bytes is the   *)
(* size of the whole source; the step of quick_scan leaves the sources,    *)
(* the directories and the files as they are.                              *)
C14_PrefixOnly ==
    /\ [](\A p \in Procs : (Returned(p) /\ IsQuick(p)) =>
            LET src == SourceOf(p)
                lim == Min2(BLen(src), 1048576)
            IN  /\ call[p].result.size_bytes = BLen(src)
                /\ \A e \in Range(load_signatures) :
                      /\ PositionsOf(p, e) =
                            { o \in Occurrences(src, e.sig) : o + Len(e.sig) <= lim }
                      /\ \A o \in PositionsOf(p, e) : o + Len(e.sig) <= lim)
    /\ [][\A p \in Procs :
            (call[p].pc = "idle" /\ call'[p].op = "quick_scan") =>
                /\ files' = files
                /\ dirs' = dirs
                /\ source_files' = source_files]_vars

(* C14 witness: quick_scan has returned without a row on a source larger  *)
(* than 1 MiB in which a four-byte pattern begins two bytes before the     *)
(* end of the first MiB, after a deep_carve has carved that occurrence     *)
C14_Witness ==
    /\ IsDeep(1) /\ call[1].pc = "done" /\ Len(call[1].result.recovered_files) = 1
    /\ IsQuick(2) /\ Returned(2)
    /\ call[2].result.files_found = <<>>
    /\ call[2].result.size_bytes = 1048576 - 2 + 104
    /\ \E P \in Patterns : Len(P) = 4 /\ MatchAt(SourceOf(2), P, 1048576 - 2)

(* the occurrences of the patterns of the table in d, and their number *)
TableOccurrences(d, upto) ==
    UNION { { <<j, o>> : o \in Occurrences(d, load_signatures[j].sig) } :
              j \in 1..upto }

OccurrenceCount(d) == Cardinality(TableOccurrences(d, Len(load_signatures)))

(* the file names in the records of call p *)
RecordNames(p) ==
    { call[p].recovered_files[j].filename : j \in 1..Len(call[p].recovered_files) }

(* C15: a deep_carve that has returned has one record for each occurrence *)
(* of a table pattern in the source, each naming a file of its own that is *)
(* on disk and not empty, the files in output_dir are those, and           *)
(* total_recovered is the number of records; a quick_scan that has         *)
(* returned has one row for each occurrence in the scanned prefix, and     *)
(* total_signatures is the number of rows.                                 *)
C15_OnePerOccurrence ==
    \A p \in Procs : Returned(p) =>
        /\ IsDeep(p) =>
              /\ Len(RowsOf(p)) = OccurrenceCount(call[p].data)
              /\ call[p].data = SourceOf(p)
              /\ call[p].result.total_recovered = Len(RowsOf(p))
              /\ Cardinality(RecordNames(p)) = Len(RowsOf(p))
              /\ NamesIn(call[p].output_dir) = RecordNames(p)
              /\ \A n \in RecordNames(p) : files[<<call[p].output_dir, n>>] # <<>>
        /\ IsQuick(p) =>
              /\ Len(RowsOf(p)) = OccurrenceCount(QuickData(p))
              /\ call[p].result.total_signatures = Len(RowsOf(p))

(* C15 witness: a returned deep_carve with several records, one of them   *)
(* for a two-byte pattern at the very end of the source, carved into a     *)
(* file of two bytes                                                       *)
C15_Witness ==
    \E p \in Procs :
        /\ Returned(p) /\ IsDeep(p)
        /\ Len(RowsOf(p)) >= 2
        /\ \E j \in 1..Len(RowsOf(p)) :
              /\ RowsOf(p)[j].size = 2
              /\ RowsOf(p)[j].original_position = BLen(call[p].data) - 2
              /\ BLen(FileOf(p, RowsOf(p)[j])) = 2

(* the writing of a carved file has failed in call p *)
WriteFailed(p) ==
    IsDeep(p) /\ call[p].pc = "raised" /\ call[p].error = "OSError"

(* C16: when open or write of a carved file fails, deep_carve ends with   *)
(* the exception and without a result; the files carved before it are on   *)
(* disk with the bytes extracted for them; they are the files of the       *)
(* occurrences before the failing one, in order, so no later occurrence    *)
(* was processed, and output_dir holds nothing else but possibly the file  *)
(* whose writing failed; a call that has raised takes no further step.     *)
C16_WriteFailureAborts ==
    /\ [](\A p \in Procs : (Carving(p) /\ WriteFailed(p)) =>
            LET c == call[p]
            IN  /\ c.result = NoResult
                /\ c.i < Len(c.positions)
                /\ Len(c.recovered_files) =
                      Cardinality(TableOccurrences(c.data, c.k - 1)) + c.i
                /\ \A j \in 1..Len(c.recovered_files) :
                      LET r == c.recovered_files[j]
                      IN  /\ <<c.output_dir, r.filename>> \in DOMAIN files
                          /\ FileOf(p, r) =
                                TakeBytes(DropBytes(c.data, r.original_position),
                                          r.size)
                          /\ BLen(FileOf(p, r)) = r.size
                          /\ r.size > 0
                /\ p = 1 => NamesIn(c.output_dir) \subseteq
                                RecordNames(p) \cup {c.filename})
    /\ [][\A p \in Procs : WriteFailed(p) => call'[p] = call[p]]_vars

(* C16 witness: the write of the second carved file has failed and left   *)
(* a part of it; the first carved file is on disk in full                  *)
C16_Witness ==
    /\ WriteFailed(1) /\ call[2].pc = "idle"
    /\ Len(call[1].recovered_files) = 1
    /\ BLen(FileOf(1, call[1].recovered_files[1])) = call[1].recovered_files[1].size
    /\ <<call[1].output_dir, call[1].filename>> \in DOMAIN files
    /\ files[<<call[1].output_dir, call[1].filename>>] # <<>>
    /\ files[<<call[1].output_dir, call[1].filename>>] # call[1].file_data

(* both calls are deep_carve calls that have returned *)
BothCarved(p, q) ==
    /\ p # q
    /\ IsDeep(p) /\ IsDeep(q)
    /\ call[p].pc = "done" /\ call[q].pc = "done"

(* the bytes a deep_carve of source d on its own writes for record r *)
AloneWrites(d, r) ==
    TakeBytes(DropBytes(d, r.original_position),
              Min2(CapUsed(r.extension), BLen(d) - r.original_position))

(* C17: when two concurrent deep_carve calls on the same source into the  *)
(* same directory have both returned, under every interleaving of their    *)
(* statements, they have returned the same records, and every file the     *)
(* records name holds the bytes one call alone writes for it, with the     *)
(* recorded size and digest.                                               *)
C17_SameSourceSameDir ==
    \A p, q \in Procs :
        ( /\ BothCarved(p, q)
          /\ call[p].source_path = call[q].source_path
          /\ call[p].output_dir = call[q].output_dir ) =>
            /\ call[p].result.recovered_files = call[q].result.recovered_files
            /\ \A j \in 1..Len(call[p].result.recovered_files) :
                  LET r == call[p].result.recovered_files[j]
                      f == <<call[p].output_dir, r.filename>>
                  IN  /\ f \in DOMAIN files
                      /\ files[f] = AloneWrites(SourceOf(p), r)
                      /\ BLen(files[f]) = r.size
                      /\ r.hash_sha256 = <<"sha256", files[f]>>

(* C17 witness: both calls have carved the two JPEG occurrences of the    *)
(* same source into out1, where a longer file of an earlier carve was      *)
(* under one of the names                                                  *)
C17_Witness ==
    /\ mode = "concurrent"
    /\ BothCarved(1, 2)
    /\ call[1].source_path = call[2].source_path
    /\ call[1].output_dir = "out1" /\ call[2].output_dir = "out1"
    /\ Len(call[1].result.recovered_files) = 2
    /\ BLen(files[<<"out1", "carved_jpg_00000014_0.jpg">>]) < 200

(* C18 as claimed: when two concurrent deep_carve calls that use distinct *)
(* output directories, or carve distinct sources, have both returned,      *)
(* every file named in a call's result holds the bytes that call           *)
(* extracted: its digest on disk is the hash_sha256 of the call's record.  *)
C18_IndependentCalls ==
    \A p, q \in Procs :
        ( /\ BothCarved(p, q)
          /\ \/ call[p].output_dir # call[q].output_dir
             \/ call[p].source_path # call[q].source_path ) =>
            \A j \in 1..Len(call[p].result.recovered_files) :
                LET r == call[p].result.recovered_files[j]
                    f == <<call[p].output_dir, r.filename>>
                IN  /\ f \in DOMAIN files
                    /\ sha256_hexdigest(files[f]) = r.hash_sha256

(* the file f is the one call p, in state c, has derived the name of for  *)
(* the occurrence it is at                                                 *)
DerivedBy(c, f) ==
    /\ c.op = "deep_carve"
    /\ c.pc \in {"write", "record", "raised"}
    /\ c.positions # <<>>
    /\ f = <<c.output_dir,
             carved_filename(load_signatures[c.k].ext, c.positions[c.i + 1], c.i)>>

(* C19: the mkdir step of deep_carve succeeds whether or not output_dir   *)
(* and its parents exist, it leaves every directory and every file in      *)
(* place; no step removes a file, and a step changes the content of a file *)
(* only if the file is in the output_dir of the call that takes it, under  *)
(* the name that call has derived for its current occurrence; so the files *)
(* that were in output_dir under other names are still there, unchanged    *)
(* (where the callers found out1 in use: notes.txt and the png file).      *)
C19_MkdirIdempotentFrame ==
    /\ [](\A f \in DOMAIN EarlierFiles :
            mode = "concurrent" =>
                /\ f \in DOMAIN files
                /\ f[2] \in {"notes.txt", "carved_png_00000000_0.png"} =>
                      files[f] = EarlierFiles[f])
    /\ [][ /\ \A p \in Procs :
                (call[p].pc = "mkdir" /\ call'[p] # call[p]) =>
                    /\ call'[p].pc = "getsize"
                    /\ files' = files
                    /\ dirs \subseteq dirs'
                    /\ {call[p].output_dir} \cup parents(call[p].output_dir)
                          \subseteq dirs'
           /\ \A f \in DOMAIN files :
                /\ f \in DOMAIN files'
                /\ files'[f] # files[f] =>
                      \E p \in Procs :
                          call'[p] # call[p] /\ DerivedBy(call'[p], f) ]_vars

(* C19 witness: a deep_carve into out1, which existed and held files, has *)
(* returned and has replaced the file left under a name it derives; the    *)
(* other call went into out1/sub, whose parent existed, and has returned   *)
(* with files written                                                      *)
C19_Witness ==
    \E p, q \in Procs :
        /\ BothCarved(p, q)
        /\ call[p].output_dir = "out1" /\ call[q].output_dir = "out1/sub"
        /\ "out1/sub" \in dirs
        /\ NamesIn("out1/sub") # {}
        /\ "carved_jpg_00000014_0.jpg" \in RecordNames(p)
        /\ files[<<"out1", "carved_jpg_00000014_0.jpg">>] # Filler(200)
        /\ files[<<"out1", "notes.txt">>] = Filler(7)
        /\ <<"out1", "carved_png_00000000_0.png">> \in DOMAIN files

(* C20 as claimed: no failure of a menu operation leaves the front end;   *)
(* after each operation the menu loop goes on, with a message printed      *)
(* where the operation failed, and the loop has ended only if Exit was     *)
(* chosen.                                                                 *)
C20_FailuresReturnToMenu ==
    /\ ui.pc \in {"menu", "flow", "exited"}
    /\ ui.pc = "exited" => ui.choice = "Exit"

(* the iterations of the loop taken so far: one for each position, and    *)
(* the one that found nothing                                              *)
Iterations == Len(scan.positions) + (IF scan.pc = "returned" THEN 1 ELSE 0)

(* C21: on every buffer and every pattern that is not empty the loop of   *)
(* _find_all_occurrences ends: each iteration that goes on sets start to   *)
(* the offset just found plus 1, which is more than start was; the offsets *)
(* reported are strictly increasing and lie in the buffer; the loop takes  *)
(* at most len(buffer) + 1 iterations, and it does return.                 *)
C21_FindTerminates ==
    /\ [](scan.pc # "idle" =>
            /\ scan.pattern # <<>>
            /\ \A j \in 1..Len(scan.positions) :
                  /\ 0 <= scan.positions[j]
                  /\ scan.positions[j] < BLen(scan.data)
                  /\ j > 1 => scan.positions[j - 1] < scan.positions[j]
            /\ scan.positions # <<>> =>
                  scan.start = scan.positions[Len(scan.positions)] + 1
            /\ scan.start <= BLen(scan.data)
            /\ Iterations <= BLen(scan.data) + 1)
    /\ [][(scan' # scan /\ scan'.pc = "loop") =>
            /\ scan'.start > scan.start
            /\ Len(scan'.positions) = Len(scan.positions) + 1
            /\ scan'.start = scan'.positions[Len(scan'.positions)] + 1]_vars
    /\ <>(scan.pc = "returned")

(* C21 witness: the loop has returned after len(buffer) + 1 iterations,   *)
(* a match at every offset of a buffer of six bytes                        *)
C21_Witness ==
    /\ scan.pc = "returned"
    /\ BLen(scan.data) = 6
    /\ Iterations = BLen(scan.data) + 1
    /\ scan.positions = <<0, 1, 2, 3, 4, 5>>

(* two patterns that can match at one offset of one buffer: one of them   *)
(* begins with the other                                                   *)
CanMatchTogether(P, Q) ==
    \A n \in 1..Min2(Len(P), Len(Q)) : P[n] = Q[n]

(* C22: within one deep_carve call no two occurrences get one file name:  *)
(* table entries that share an extension never match at one offset, the    *)
(* name a file is opened under is not the name of a record of the call,    *)
(* no step of the call changes the file of one of its records, and at the  *)
(* return the distinct files written are total_recovered many.             *)
C22_NamesDistinct ==
    /\ [](/\ \A j, k \in 1..Len(load_signatures) :
                (j # k /\ load_signatures[j].ext = load_signatures[k].ext)
                    => ~CanMatchTogether(load_signatures[j].sig,
                                         load_signatures[k].sig)
          /\ \A p \in Procs : Carving(p) =>
                /\ call[p].pc \in {"write", "record"} =>
                      /\ call[p].filename \notin RecordNames(p)
                      /\ \A j \in 1..Len(call[p].recovered_files) :
                            LET r == call[p].recovered_files[j]
                            IN  r.extension = load_signatures[call[p].k].ext
                                  => r.original_position
                                        # call[p].positions[call[p].i + 1]
                /\ call[p].pc = "done" =>
                      /\ Cardinality(RecordNames(p))
                            = call[p].result.total_recovered
                      /\ Cardinality(NamesIn(call[p].output_dir)
                                        \cap RecordNames(p))
                            = call[p].result.total_recovered)
    /\ [][\A p \in Procs : (Carving(p) /\ call[p].pc # "done") =>
             \A j \in 1..Len(call[p].recovered_files) :
                 LET f == <<call[p].output_dir,
                            call[p].recovered_files[j].filename>>
                 IN  f \in DOMAIN files' /\ files'[f] = files[f]]_vars

(* C22 witness: a deep_carve has returned three records of extension txt, *)
(* two of one signature at offsets 0 and 2 and one of another signature at *)
(* offset 1, in three files                                                *)
C22_Witness ==
    \E p \in Procs :
        /\ Returned(p) /\ IsDeep(p)
        /\ call[p].result.total_recovered = 3
        /\ Cardinality(NamesIn(call[p].output_dir)) = 3
        /\ \E j, k, l \in 1..3 :
              /\ RowsOf(p)[j].original_position = 0
              /\ RowsOf(p)[k].original_position = 1
              /\ RowsOf(p)[l].original_position = 2
              /\ RowsOf(p)[j].description = RowsOf(p)[l].description
              /\ RowsOf(p)[j].description # RowsOf(p)[k].description
              /\ \A r \in {j, k, l} : RowsOf(p)[r].extension = "txt"

(* P overlaps itself: a proper prefix of P, not empty, is a suffix of P *)
OverlapsItself(P) ==
    \E n \in 1..(Len(P) - 1) : SubSeq(P, 1, n) = SubSeq(P, Len(P) - n + 1, Len(P))

(* the scanner that resumes behind the match: start = pos + len(pattern) *)
RECURSIVE find_loop_past(_, _, _, _)
find_loop_past(data, pattern, start, positions) ==
    LET pos == bytes_find(data, pattern, start)
    IN  IF pos = -1 THEN positions
        ELSE find_loop_past(data, pattern, pos + Len(pattern),
                            Append(positions, pos))

TablePatterns == { load_signatures[j].sig : j \in 1..Len(load_signatures) }

(* C23: no pattern of the table overlaps itself; so the offsets that      *)
(* _find_all_occurrences returns for a table pattern lie at least          *)
(* len(pattern) apart, and they are the offsets a scanner resuming at      *)
(* pos + len(pattern) returns; matches that share a byte are matches of    *)
(* different patterns.                                                     *)
C23_NoSelfOverlap ==
    /\ \A P \in TablePatterns : ~OverlapsItself(P)
    /\ (scan.pc = "returned" /\ scan.pattern \in TablePatterns) =>
          /\ scan.positions = find_loop_past(scan.data, scan.pattern, 0, <<>>)
          /\ scan.positions = find_all_occurrences(scan.data, scan.pattern)
          /\ \A j \in 2..Len(scan.positions) :
                scan.positions[j] - scan.positions[j - 1] >= Len(scan.pattern)

(* C23 witness: FF FE FF FE FF FE scanned for FF FE gives 0, 2, 4, each   *)
(* match directly behind the one before, while FE FF matches at 1, inside  *)
(* the first match of FF FE                                                *)
C23_Witness ==
    /\ scan.pc = "returned"
    /\ scan.pattern = <<\hFF, \hFE>>
    /\ scan.positions = <<0, 2, 4>>
    /\ MatchAt(scan.data, <<\hFE, \hFF>>, 1)
    /\ <<\hFE, \hFF>> \in TablePatterns

(* where the claim's equality ends: a pattern that overlaps itself, as no *)
(* table entry does, is found at offsets the other scanner skips           *)
C23_OverlapSeen ==
    /\ scan.pc = "returned"
    /\ OverlapsItself(scan.pattern)
    /\ scan.positions # find_loop_past(scan.data, scan.pattern, 0, <<>>)

(* what a row or a record says of the occurrence it reports *)
QuickDetected(row) == <<row.type, row.extension, row.description, row.position>>

DeepDetected(r) == <<r.type, r.extension, r.description, r.original_position>>

(* the match a record reports lies in the first MiB of the source *)
InFirstMiB(r) == r.original_position + Len(ItemOf(r).sig) <= MiB

(* the rows of quick_scan's loop with the test "signature in data" left out *)
RECURSIVE rows_without_precheck(_, _)
rows_without_precheck(data, signatures) ==
    IF signatures = <<>> THEN <<>>
    ELSE LET positions == find_all_occurrences(data, Head(signatures).sig)
         IN  [j \in 1..Len(positions) |->
                 quick_row(Head(signatures).sig, Head(signatures), positions[j])]
             \o rows_without_precheck(data, Tail(signatures))

(* a quick_scan p and a deep_carve q of one source have both returned *)
BothScanned(p, q) ==
    /\ call[p].pc = "done" /\ IsQuick(p)
    /\ call[q].pc = "done" /\ IsDeep(q)
    /\ call[p].source_path = call[q].source_path

(* C24: quick_scan and deep_carve of one source report the same           *)
(* occurrences: the (type, extension, description, position) of the rows   *)
(* are, in order, those of the records whose match lies in the first MiB,  *)
(* which are all records when the source has at most 1 MiB; and the rows   *)
(* are those the loop gives without the test "signature in data".          *)
C24_SameOccurrences ==
    \A p, q \in Procs : BothScanned(p, q) =>
        LET rows == call[p].result.files_found
            recs == call[q].result.recovered_files
            inside == SelectSeq(recs, InFirstMiB)
        IN  /\ [j \in 1..Len(rows) |-> QuickDetected(rows[j])]
                  = [j \in 1..Len(inside) |-> DeepDetected(inside[j])]
            /\ BLen(SourceOf(p)) <= MiB => inside = recs
            /\ rows = rows_without_precheck(QuickData(p), load_signatures)

(* C24 witness: of a source longer than 1 MiB quick_scan has one row, and *)
(* deep_carve has that occurrence and two more, one beginning two bytes    *)
(* before the end of the first MiB and one behind it                       *)
C24_Witness ==
    \E p, q \in Procs :
        /\ BothScanned(p, q)
        /\ BLen(SourceOf(p)) > MiB
        /\ Len(call[p].result.files_found) = 1
        /\ Len(call[q].result.recovered_files) = 3
        /\ \E j, k \in 1..3 :
              /\ call[q].result.recovered_files[j].original_position = MiB - 2
              /\ call[q].result.recovered_files[k].original_position > MiB

(* a quick_scan and a deep_carve of a short source with several rows *)
C24_WitnessShort ==
    \E p, q \in Procs :
        /\ BothScanned(p, q)
        /\ BLen(SourceOf(p)) <= MiB
        /\ Len(call[p].result.files_found) >= 3

(* the output directory of call p and the directories above it exist *)
OutputDirMade(p) ==
    /\ call[p].output_dir \in dirs
    /\ parents(call[p].output_dir) \subseteq dirs

(* C25: deep_carve makes output_dir and its missing parents before it     *)
(* touches the source and never tests that the source exists: on a path    *)
(* of no file it raises FileNotFoundError in getsize, with the directory   *)
(* made, so the file system has changed; quick_scan on such a path raises  *)
(* in one step that leaves directories and files as they were.             *)
C25_DirBeforeSource ==
    /\ [](\A p \in Procs : IsDeep(p) =>
            /\ call[p].pc \notin {"idle", "mkdir"} => OutputDirMade(p)
            /\ (Missing(p) /\ call[p].pc = "raised") =>
                  /\ call[p].error = "FileNotFoundError"
                  /\ OutputDirMade(p)
                  /\ dirs # {})
    /\ [][\A p \in Procs :
            /\ (IsDeep(p) /\ call[p].pc = "mkdir") =>
                  /\ call'[p].pc = "getsize"
                  /\ dirs' = dirs \cup {call[p].output_dir}
                                  \cup parents(call[p].output_dir)
            /\ (IsDeep(p) /\ Missing(p) /\ call[p].pc # "raised"
                    /\ call'[p].pc = "raised") =>
                  /\ call[p].pc = "getsize"
                  /\ OutputDirMade(p)
            /\ (call[p].pc = "idle" /\ call'[p].pc = "raised") =>
                  /\ call'[p].op = "quick_scan"
                  /\ call'[p].source_path \notin DOMAIN source_files
                  /\ call'[p].error = "FileNotFoundError"
                  /\ dirs' = dirs /\ files' = files
                  /\ source_files' = source_files]_vars

(* C25 witness: the first call, a deep_carve of a path of no file into    *)
(* out1/sub, has raised and left out1 and out1/sub on a disk that had no   *)
(* directory; a quick_scan of the same path has raised after it and left   *)
(* the disk as it was                                                      *)
C25_Witness ==
    /\ IsDeep(1) /\ Missing(1) /\ call[1].pc = "raised"
    /\ call[1].error = "FileNotFoundError"
    /\ call[1].output_dir = "out1/sub"
    /\ dirs = {"out1", "out1/sub"}
    /\ files = << >>
    /\ IsQuick(2) /\ Missing(2) /\ call[2].pc = "raised"

(* the bytes deep_carve extracts for the occurrence record r reports *)
ExtractedFor(p, r) ==
    extract_file_data(call[p].data, r.original_position, ItemOf(r).sig,
                      r.extension)

(* C26: at every point of a deep_carve call each record appended so far   *)
(* names a file in output_dir that holds all of the bytes extracted for    *)
(* its occurrence, hash_sha256 is the digest of those bytes and size their *)
(* number; the file being opened or written is not yet recorded; and on a  *)
(* disk that was empty when the call began the files are as many as the    *)
(* records, or one more.                                                   *)
C26_RecordedAfterWritten ==
    \A p \in Procs : Carving(p) =>
        /\ \A j \in 1..Len(call[p].recovered_files) :
              LET r == call[p].recovered_files[j]
                  f == <<call[p].output_dir, r.filename>>
              IN  /\ f \in DOMAIN files
                  /\ files[f] = ExtractedFor(p, r)
                  /\ files[f] # <<>>
                  /\ r.hash_sha256 = sha256_hexdigest(ExtractedFor(p, r))
                  /\ r.size = BLen(files[f])
        /\ call[p].pc = "record" =>
              /\ files[<<call[p].output_dir, call[p].filename>>] = call[p].file_data
              /\ call[p].filename \notin RecordNames(p)
        /\ p = 1 =>
              /\ Len(call[p].recovered_files) <= Cardinality(DOMAIN files)
              /\ Cardinality(DOMAIN files) <= Len(call[p].recovered_files) + 1
              /\ call[p].pc \in {"for_signature", "extract", "done"} =>
                    Cardinality(DOMAIN files) = Len(call[p].recovered_files)

(* C26 witness: in the middle of a deep_carve with two records a third    *)
(* file is written in full and not yet recorded                            *)
C26_Witness ==
    /\ Carving(1) /\ call[1].pc = "record"
    /\ Len(call[1].recovered_files) = 2
    /\ Cardinality(DOMAIN files) = 3
    /\ files[<<call[1].output_dir, call[1].filename>>] = call[1].file_data
    /\ call[1].file_data # <<>>

(* a deep_carve has ended in a failed write: the file it was writing      *)
(* holds a part of the extracted bytes and has no record                   *)
C26_WitnessPartial ==
    /\ Carving(1) /\ WriteFailed(1)
    /\ Len(call[1].recovered_files) = 1
    /\ Cardinality(DOMAIN files) = 2
    /\ call[1].filename \notin RecordNames(1)
    /\ BLen(files[<<call[1].output_dir, call[1].filename>>])
          < BLen(call[1].file_data)

====
